---- MODULE Spec2Model ----
(***************************************************************************)
(* Xanadu qubit routing: initial placement (BASIC / RANDOM / MAJORITY /    *)
(* MAX_PAIRS), lookahead router, placement refinement (MapperUpdater) and  *)
(* the apply_routing driver.                                               *)
(*                                                                         *)
(* Python lists that are shared by reference (the l_to_p / p_to_l arrays   *)
(* of mappers and routers) live in the heap `lists`; objects hold          *)
(* addresses into it and list.copy() allocates a new address.              *)
(* Python index i of a list is index i+1 of the TLA+ sequence modelling    *)
(* it; placement arrays are functions over 0..Q-1.                         *)
(***************************************************************************)
EXTENDS Integers, Sequences, FiniteSets

VARIABLES topology, tape, mapper_type, cnots_list, pc, lists, mapper, mp, upd, rt, drv

vars == <<topology, tape, mapper_type, cnots_list, pc, lists, mapper, mp, upd, rt, drv>>

(***************************************************************************)
(* Bounds of the model                                                     *)
(***************************************************************************)
\* largest number of topology nodes
MaxNodes == 6
\* a drawn placement is at most this many exchanges away from the identity
MaxExchanges == 1
\* longest interaction list handed directly to a MapperUpdater
MaxCnots == 2
\* largest lookahead handed directly to a MapperUpdater
MaxLookahead == 2
\* interaction lists handed directly to a MapperUpdater use qubits 0..MaxUsedQubits-1
MaxUsedQubits == 3
\* longest tape handed to apply_routing
MaxGates == 2
\* tapes handed to apply_routing use wires 0..MaxTapeWires-1
MaxTapeWires == 3
\* largest graph whose shortest-path tables are built on their own
MaxGraphNodes == 4
\* qubits and interactions of a QubitInteractionsHandler built on its own
MaxHandlerQubits == 4
MaxHandlerCnots == 3

(***************************************************************************)
(* Program constants                                                       *)
(***************************************************************************)
\* float('inf'); Plus saturates at it
Inf == 1000
\* lookahead fixed by the driver
DriverLookahead == 10

Min(a, b) == IF a <= b THEN a ELSE b

Range(s) == {s[x] : x \in DOMAIN s}

Reverse(s) == [x \in 1..Len(s) |-> s[Len(s) + 1 - x]]

\* f itself; the comparison makes TLC tabulate f once instead of
\* re-evaluating its defining expression at every application
Materialize(f) == IF f = f THEN f ELSE f

\* inf + x = inf
Plus(a, b) == IF a = Inf \/ b = Inf THEN Inf ELSE a + b

(***************************************************************************)
(* Connectivity graphs (nx.Graph with nodes labelled 0..n-1)               *)
(***************************************************************************)
Graph(n, edges) == [n |-> n, edges |-> edges]

Line(n) == Graph(n, {{i, i + 1} : i \in 0..(n - 2)})

Ring(n) == Graph(n, {{i, i + 1} : i \in 0..(n - 2)} \cup {{0, n - 1}})

Star(n) == Graph(n, {{0, i} : i \in 1..(n - 1)})

\* a line with its middle edge removed: two components
Split(n) == Graph(n, {{i, i + 1} : i \in 0..(n - 2)} \ {{(n \div 2) - 1, n \div 2}})


NodesOf(g) == 0..(g.n - 1)

Neighbors(g, v) == {u \in NodesOf(g) : {u, v} \in g.edges /\ u # v}

(***************************************************************************)
(* UnweightedUndirectedGraph                                               *)
(***************************************************************************)
\* __init__ + from_nx + add_edge: the symmetric adjacency matrix
AdjMatrix(g) ==
    [u \in NodesOf(g) |-> [v \in NodesOf(g) |-> IF {u, v} \in g.edges /\ u # v THEN 1 ELSE 0]]

FWInitDist(n, adj) ==
    [i \in 0..(n - 1) |-> [j \in 0..(n - 1) |->
        IF i = j THEN 0 ELSE IF adj[i][j] = 1 THEN 1 ELSE Inf]]

FWInitNext(n, adj) ==
    [i \in 0..(n - 1) |-> [j \in 0..(n - 1) |->
        IF i # j /\ adj[i][j] = 1 THEN j ELSE -1]]

\* One pass of the outer loop (fixed k) over all (i, j).  Row k and column k
\* of dist and column k of next_node are not modified during pass k
\* (dist[k][k] = 0 and the test is strict), so the in-place update equals
\* the update from the tables as they were when the pass began.
RECURSIVE FWLoop(_, _, _, _)
FWLoop(n, k, dist, next_node) ==
    IF k >= n THEN [dist |-> dist, next_node |-> next_node]
    ELSE LET through(i, j) == Plus(dist[i][k], dist[k][j])
             nd == [i \in 0..(n - 1) |-> [j \in 0..(n - 1) |->
                       IF dist[i][j] > through(i, j) THEN through(i, j) ELSE dist[i][j]]]
             nn == [i \in 0..(n - 1) |-> [j \in 0..(n - 1) |->
                       IF dist[i][j] > through(i, j) THEN next_node[i][k] ELSE next_node[i][j]]]
         IN FWLoop(n, k + 1, Materialize(nd), Materialize(nn))

\* floyd_warshall whose outer loop skips the intermediate node 0
floyd_warshall_from_one(n, adj) ==
    FWLoop(n, 1, Materialize(FWInitDist(n, adj)), Materialize(FWInitNext(n, adj)))

floyd_warshall(n, adj) ==
    FWLoop(n, 0, Materialize(FWInitDist(n, adj)), Materialize(FWInitNext(n, adj)))

are_adjacent(adj, u, v) == adj[u][v] = 1

RECURSIVE PathWalk(_, _, _, _)
PathWalk(next_node, start, end, path) ==
    IF start = end THEN path
    ELSE LET s == next_node[start][end]
         IN IF s = -1 THEN <<>> ELSE PathWalk(next_node, s, end, Append(path, s))

get_shortest_path(dist, next_node, start, end) ==
    IF dist[start][end] = Inf THEN <<>>
    ELSE PathWalk(next_node, start, end, <<start>>)

\* the connectivity graphs apply_routing is run on
DriverTopologies ==
    {Line(2), Line(MaxNodes - 2), Star(MaxNodes - 2), Split(MaxNodes - 2), Ring(MaxNodes - 1)}

\* the connectivity graphs a MapperUpdater is built on directly
UpdaterTopologies == {Line(MaxNodes), Ring(MaxNodes - 1), Split(MaxNodes - 1)}

\* floyd_warshall() of every graph, tabulated once
ShortestPathTables ==
    Materialize([g \in DriverTopologies \cup UpdaterTopologies |-> floyd_warshall(g.n, AdjMatrix(g))])

(***************************************************************************)
(* Placements                                                              *)
(***************************************************************************)
Identity(n) == [i \in 0..(n - 1) |-> i]

Exchange(f, i, j) == [f EXCEPT ![i] = f[j], ![j] = f[i]]

\* the lists a run of rnd.shuffle with at most k exchanges leaves, from the identity
RECURSIVE Shuffles(_, _)
Shuffles(n, k) ==
    IF k = 0 THEN {Identity(n)}
    ELSE LET prev == Shuffles(n, k - 1)
         IN prev \cup {Exchange(f, ij[1], ij[2]) :
                          f \in prev, ij \in {x \in (0..(n - 1)) \X (0..(n - 1)) : x[1] < x[2]}}

\* Mapper.physic_to_logical applied to p_to_l, for l_to_p = l
RECURSIVE PhysicToLogicalFrom(_, _, _)
PhysicToLogicalFrom(l, p, q) ==
    IF q \notin DOMAIN l THEN p
    ELSE PhysicToLogicalFrom(l, [p EXCEPT ![l[q]] = q], q + 1)

physic_to_logical(l, p) == PhysicToLogicalFrom(l, p, 0)

\* a Mapper object: the addresses of its two lists
MapperObj(a, b, q) == [l_to_p |-> a, p_to_l |-> b, qubits |-> q]

NoMapper == MapperObj(0, 0, 0)

\* no placement strategy is running
NoMp == [kind |-> "none"]

(***************************************************************************)
(* MaxHeap / MaxHeapObj / KeyValMaxHeapObj (heapq on objects whose < is    *)
(* reversed).  Heap position p is index p + 1 of the sequence.             *)
(***************************************************************************)
KeyVal(key, val) == [key |-> key, val |-> val]

\* MaxHeapObj.__lt__
Lt(a, b) == a.val > b.val

\* heapq._siftdown
RECURSIVE SiftDownLoop(_, _, _, _)
SiftDownLoop(h, startpos, pos, newitem) ==
    IF pos > startpos
    THEN LET parentpos == (pos - 1) \div 2
             parent == h[parentpos + 1]
         IN IF Lt(newitem, parent)
            THEN SiftDownLoop([h EXCEPT ![pos + 1] = parent], startpos, parentpos, newitem)
            ELSE [h EXCEPT ![pos + 1] = newitem]
    ELSE [h EXCEPT ![pos + 1] = newitem]

SiftDown(h, startpos, pos) == SiftDownLoop(h, startpos, pos, h[pos + 1])

\* heapq._siftup
RECURSIVE SiftUpLoop(_, _, _, _)
SiftUpLoop(h, startpos, pos, newitem) ==
    LET endpos == Len(h)
        childpos == 2 * pos + 1
        rightpos == childpos + 1
    IN IF childpos < endpos
       THEN LET c == IF rightpos < endpos /\ ~Lt(h[childpos + 1], h[rightpos + 1])
                     THEN rightpos ELSE childpos
            IN SiftUpLoop([h EXCEPT ![pos + 1] = h[c + 1]], startpos, c, newitem)
       ELSE SiftDown([h EXCEPT ![pos + 1] = newitem], startpos, pos)

SiftUp(h, pos) == SiftUpLoop(h, pos, pos, h[pos + 1])

\* MaxHeap.heappush
heappush(h, obj) == SiftDown(Append(h, obj), 0, Len(h))

\* MaxHeap.heappop: the item returned and the heap left
heappop(h) ==
    LET lastelt == h[Len(h)]
        rest == SubSeq(h, 1, Len(h) - 1)
    IN IF rest # <<>>
       THEN [item |-> rest[1], heap |-> SiftUp([rest EXCEPT ![1] = lastelt], 0)]
       ELSE [item |-> lastelt, heap |-> <<>>]

RECURSIVE PushAll(_, _)
PushAll(h, objs) == IF objs = <<>> THEN h ELSE PushAll(heappush(h, Head(objs)), Tail(objs))

(***************************************************************************)
(* Mapper, RandomMapper, MajorityMapper                                    *)
(***************************************************************************)
\* Mapper.__init__: both lists are the identity
MapperBasic ==
    /\ pc = "mapper_new"
    /\ mapper_type = "basic"
    /\ lists' = <<Identity(drv.logical_qubits), Identity(drv.logical_qubits)>>
    /\ mapper' = MapperObj(1, 2, drv.logical_qubits)
    /\ pc' = "mapper_done"
    /\ UNCHANGED <<topology, tape, mapper_type, cnots_list, mp, upd, rt, drv>>

\* RandomMapper.__init__: rnd.shuffle(self.l_to_p), then physic_to_logical()
MapperRandom ==
    /\ pc = "mapper_new"
    /\ mapper_type = "random"
    /\ \E l \in Shuffles(drv.logical_qubits, MaxExchanges) :
          lists' = <<l, physic_to_logical(l, Identity(drv.logical_qubits))>>
    /\ mapper' = MapperObj(1, 2, drv.logical_qubits)
    /\ pc' = "mapper_done"
    /\ UNCHANGED <<topology, tape, mapper_type, cnots_list, mp, upd, rt, drv>>

\* interact[q]: the set of qubits q interacts with
Interact(cl, q) ==
    {cl[x][2] : x \in {y \in DOMAIN cl : cl[y][1] = q}}
        \cup {cl[x][1] : x \in {y \in DOMAIN cl : cl[y][2] = q}}

\* MajorityMapper.__init__ up to the call of compute_mapping, with adj(u)
\* giving the neighbours of u
MajorityInit ==
    /\ pc = "mapper_new"
    /\ mapper_type = "majority"
    /\ LET qubits == drv.logical_qubits
           pairs == [x \in 1..qubits |-> KeyVal(x - 1, Cardinality(Interact(cnots_list, x - 1)))]
           sizes == [x \in 1..topology.n |-> KeyVal(x - 1, Cardinality(Neighbors(topology, x - 1)))]
       IN /\ mp' = [kind |-> "majority", heap |-> PushAll(<<>>, pairs),
                    graph_neighbours_heap |-> PushAll(<<>>, sizes), it |-> 0]
          /\ lists' = <<Identity(qubits), Identity(qubits)>>
          /\ mapper' = MapperObj(1, 2, qubits)
    /\ pc' = "majority_loop"
    /\ UNCHANGED <<topology, tape, mapper_type, cnots_list, upd, rt, drv>>

\* MajorityMapper.__init__ when connectivity.adj is not callable (it is a
\* property of the graph classes of networkx): the call adj(u) raises while
\* the node heap is being filled, and no mapper is constructed
MajorityAdjError ==
    /\ pc = "mapper_new"
    /\ mapper_type = "majority"
    /\ drv' = [drv EXCEPT !.err = "adj is not callable"]
    /\ pc' = "failed"
    /\ UNCHANGED <<topology, tape, mapper_type, cnots_list, lists, mapper, mp, upd, rt>>

\* StoreMapping with the write to p_to_l left out
StoreMappingOneWay(h, mpr, qubit, node) ==
    [h EXCEPT ![mpr.l_to_p][qubit] = node]

\* the two assignments that store a pair qubit -> node
StoreMapping(h, mpr, qubit, node) ==
    LET h1 == [h EXCEPT ![mpr.l_to_p][qubit] = node]
    IN [h1 EXCEPT ![mpr.p_to_l][node] = qubit]

\* one iteration of the loop of MajorityMapper.compute_mapping
MajorityStep ==
    /\ pc = "majority_loop"
    /\ mp.it < mapper.qubits
    /\ LET qubit_heap_max == heappop(mp.heap)
           node_heap_max == heappop(mp.graph_neighbours_heap)
       IN /\ lists' = StoreMapping(lists, mapper, qubit_heap_max.item.key, node_heap_max.item.key)
          /\ mp' = [mp EXCEPT !.heap = qubit_heap_max.heap,
                              !.graph_neighbours_heap = node_heap_max.heap,
                              !.it = mp.it + 1]
    /\ pc' = IF mp.it + 1 < mapper.qubits THEN "majority_loop" ELSE "mapper_done"
    /\ UNCHANGED <<topology, tape, mapper_type, cnots_list, mapper, upd, rt, drv>>

(***************************************************************************)
(* QubitInteractionsHandler                                                *)
(***************************************************************************)
\* interactions_count after __init__
InteractionsCount(cl, qubits) ==
    [i \in 0..(qubits - 1) |-> [j \in 0..(qubits - 1) |->
        Cardinality({x \in DOMAIN cl : (cl[x][1] = i /\ cl[x][2] = j) \/ (cl[x][1] = j /\ cl[x][2] = i)})]]

\* row i as the list of pairs (j, count) after the stable sort by count, descending
SortedRow(count, i) ==
    LET n == Cardinality(DOMAIN count)
        before(a, b) == count[i][a] > count[i][b] \/ (count[i][a] = count[i][b] /\ a < b)
    IN [r \in 1..n |->
          LET j == CHOOSE b \in 0..(n - 1) : Cardinality({a \in 0..(n - 1) : before(a, b)}) = r - 1
          IN <<j, count[i][j]>>]

\* __get_first_d_free_non_zero from position x of the list, with `found` so far
RECURSIVE FirstDFreeNonZeroFrom(_, _, _, _, _, _)
FirstDFreeNonZeroFrom(free_qubits, d, list, x, found, result) ==
    IF x > Len(list) THEN result
    ELSE IF list[x][2] = 0 THEN result
    ELSE IF list[x][1] \in free_qubits
         THEN IF found + 1 = d THEN result \cup {list[x][1]}
              ELSE FirstDFreeNonZeroFrom(free_qubits, d, list, x + 1, found + 1, result \cup {list[x][1]})
         ELSE FirstDFreeNonZeroFrom(free_qubits, d, list, x + 1, found, result)

get_first_d_free_non_zero(free_qubits, d, list) ==
    FirstDFreeNonZeroFrom(free_qubits, d, list, 1, 0, {})

d_interactions(count, free_qubits, qubit, d) ==
    get_first_d_free_non_zero(free_qubits, d, SortedRow(count, qubit))

\* total_interactions of qubit i: the first d entries of its sorted row, the free ones added
TotalInteractions(count, free_qubits, d, i) ==
    LET row == SortedRow(count, i)
        RECURSIVE Sum(_)
        Sum(k) == IF k > d THEN 0
                  ELSE (IF row[k][1] \in free_qubits THEN row[k][2] ELSE 0) + Sum(k + 1)
    IN Sum(1)

\* the loop over i in self.n that keeps the first strict maximum; -1 when no i is in target_qubits
RECURSIVE MaxTotalFrom(_, _, _, _, _, _, _)
MaxTotalFrom(count, free_qubits, d, target_qubits, i, max_i, max_val) ==
    IF i >= Cardinality(DOMAIN count) THEN max_i
    ELSE IF i \in target_qubits /\ TotalInteractions(count, free_qubits, d, i) > max_val
         THEN MaxTotalFrom(count, free_qubits, d, target_qubits, i + 1, i,
                           TotalInteractions(count, free_qubits, d, i))
         ELSE MaxTotalFrom(count, free_qubits, d, target_qubits, i + 1, max_i, max_val)

\* a Python list index: negative indices count from the end
PyIndex(i, n) == IF i < 0 THEN i + n ELSE i

qubit_with_most_d_interactions_from_set(count, free_qubits, d, target_qubits) ==
    LET candidate_d_neighbours(candidate) ==
            get_first_d_free_non_zero(free_qubits, d,
                SortedRow(count, PyIndex(candidate, Cardinality(DOMAIN count))))
    IN CHOOSE ret \in {[qubit |-> candidate, neighbours |-> candidate_d_neighbours(candidate)] :
                          candidate \in {MaxTotalFrom(count, free_qubits, d, target_qubits, 0, -1, -1)}} :
           TRUE

qubit_with_most_d_interactions(count, free_qubits, d) ==
    qubit_with_most_d_interactions_from_set(count, free_qubits, d, free_qubits)

\* map_qubit that leaves q among the free qubits
map_qubit_kept(free_qubits, qubits, q) ==
    free_qubits

\* map_qubit: free_qubits afterwards
map_qubit(free_qubits, qubits, q) ==
    IF q \notin 0..(qubits - 1) THEN free_qubits ELSE free_qubits \ {q}

(***************************************************************************)
(* FreeTopologyNodesHandler                                                *)
(***************************************************************************)
\* FreeNeighboursInit that counts a node among its own free neighbours
FreeNeighboursInitWithSelf(g) == [v \in NodesOf(g) |-> Neighbors(g, v) \cup {v}]

\* free_neighbours after __init__
FreeNeighboursInit(g) == [v \in NodesOf(g) |-> Neighbors(g, v)]

\* node_with_most_free_neighbours_set that returns the last maximum met
node_with_most_free_neighbours_set_last(free_neighbours, nodes) ==
    CHOOSE v \in nodes :
        /\ \A w \in nodes : Cardinality(free_neighbours[w]) <= Cardinality(free_neighbours[v])
        /\ \A w \in nodes : Cardinality(free_neighbours[w]) = Cardinality(free_neighbours[v]) => w <= v

\* max(..., key = number of free neighbours) returns the first maximum met;
\* a set of small integers is iterated in ascending order
node_with_most_free_neighbours_set(free_neighbours, nodes) ==
    CHOOSE v \in nodes :
        /\ \A w \in nodes : Cardinality(free_neighbours[w]) <= Cardinality(free_neighbours[v])
        /\ \A w \in nodes : Cardinality(free_neighbours[w]) = Cardinality(free_neighbours[v]) => v <= w

\* occupy_node that leaves v among the free neighbours of its neighbours
occupy_node_kept(free_neighbours, v) ==
    free_neighbours

\* occupy_node: free_neighbours afterwards (free_nodes loses v)
occupy_node(free_neighbours, v) ==
    [w \in DOMAIN free_neighbours |-> free_neighbours[w] \ {v}]

(***************************************************************************)
(* MaxInteractingPairsMapping                                              *)
(***************************************************************************)
\* __init__ up to the while loop of compute_mapping
MaxPairsInit ==
    /\ pc = "mapper_new"
    /\ mapper_type = "max_pairs"
    /\ LET qubits == drv.logical_qubits
       IN /\ lists' = <<[i \in 0..(qubits - 1) |-> -1], [i \in 0..(qubits - 1) |-> -1]>>
          /\ mapper' = MapperObj(1, 2, qubits)
          /\ mp' = [kind |-> "max_pairs",
                    interactions_count |-> InteractionsCount(cnots_list, qubits),
                    free_qubits |-> 0..(qubits - 1),
                    free_nodes |-> NodesOf(topology),
                    free_neighbours |-> FreeNeighboursInit(topology),
                    queue |-> <<>>, to_do |-> qubits,
                    node |-> -1, qubit |-> -1, qubit_neighbours |-> {},
                    iters |-> 0, i |-> 0]
          /\ pc' = IF qubits # 0 THEN "max_pairs_while" ELSE "mapper_done"
    /\ UNCHANGED <<topology, tape, mapper_type, cnots_list, upd, rt, drv>>

\* MaxPairsPc whose while loop has no exit
MaxPairsPcNoExit(i, iters, to_do) ==
    IF i < iters THEN "max_pairs_for" ELSE "max_pairs_while"

\* where compute_mapping stands after a step that leaves i iterations of
\* the for loop done out of iters and to_do placements missing
MaxPairsPc(i, iters, to_do) ==
    IF i < iters THEN "max_pairs_for"
    ELSE IF to_do # 0 THEN "max_pairs_while" ELSE "mapper_done"

\* a pass of the while loop with the queue empty, up to the for loop
MaxPairsSeed ==
    /\ pc = "max_pairs_while"
    /\ mp.queue = <<>>
    /\ mp.free_nodes # {}
    /\ LET node == node_with_most_free_neighbours_set(mp.free_neighbours, mp.free_nodes)
           d == Cardinality(mp.free_neighbours[node])
           r == qubit_with_most_d_interactions(mp.interactions_count, mp.free_qubits, d)
           qubit == r.qubit
           fn == occupy_node(mp.free_neighbours, node)
           iters == Min(Cardinality(r.neighbours), Cardinality(fn[node]))
       IN /\ lists' = StoreMapping(lists, mapper, PyIndex(qubit, mapper.qubits), node)
          /\ mp' = [mp EXCEPT !.free_nodes = mp.free_nodes \ {node},
                              !.free_neighbours = fn,
                              !.free_qubits = map_qubit(mp.free_qubits, mapper.qubits, qubit),
                              !.to_do = mp.to_do - 1,
                              !.node = node, !.qubit = qubit,
                              !.qubit_neighbours = r.neighbours,
                              !.iters = iters, !.i = 0]
          /\ pc' = MaxPairsPc(0, iters, mp.to_do - 1)
    /\ UNCHANGED <<topology, tape, mapper_type, cnots_list, mapper, upd, rt, drv>>

\* a pass of the while loop with a queued pair, up to the for loop
MaxPairsPop ==
    /\ pc = "max_pairs_while"
    /\ mp.queue # <<>>
    /\ LET node == Head(mp.queue)[1]
           qubit == Head(mp.queue)[2]
           qubit_neighbours == d_interactions(mp.interactions_count, mp.free_qubits, qubit,
                                              Cardinality(mp.free_neighbours[node]))
           iters == Min(Cardinality(qubit_neighbours), Cardinality(mp.free_neighbours[node]))
       IN /\ mp' = [mp EXCEPT !.queue = Tail(mp.queue),
                              !.node = node, !.qubit = qubit,
                              !.qubit_neighbours = qubit_neighbours,
                              !.iters = iters, !.i = 0]
          /\ pc' = MaxPairsPc(0, iters, mp.to_do)
    /\ UNCHANGED <<topology, tape, mapper_type, cnots_list, lists, mapper, upd, rt, drv>>

\* one iteration of the for loop; node_neighbours is the very set
\* free_neighbours[node] of the handler, so occupy_node shrinks it too
MaxPairsExpand ==
    /\ pc = "max_pairs_for"
    /\ mp.free_neighbours[mp.node] # {}
    /\ LET node_neighbours == mp.free_neighbours[mp.node]
           neighbour == node_with_most_free_neighbours_set(mp.free_neighbours, node_neighbours)
           d == Cardinality(mp.free_neighbours[neighbour])
           r == qubit_with_most_d_interactions_from_set(mp.interactions_count, mp.free_qubits,
                                                        d, mp.qubit_neighbours)
           neighbour_qubit == r.qubit
       IN IF mp.qubit # -1
          THEN /\ lists' = StoreMapping(lists, mapper, PyIndex(neighbour_qubit, mapper.qubits), neighbour)
               /\ mp' = [mp EXCEPT !.free_qubits = map_qubit(mp.free_qubits, mapper.qubits, neighbour_qubit),
                                   !.free_nodes = mp.free_nodes \ {neighbour},
                                   !.free_neighbours = occupy_node(mp.free_neighbours, neighbour),
                                   !.to_do = mp.to_do - 1,
                                   !.qubit_neighbours = mp.qubit_neighbours \ {neighbour_qubit},
                                   !.queue = Append(mp.queue, <<neighbour, neighbour_qubit>>),
                                   !.i = mp.i + 1]
               /\ pc' = MaxPairsPc(mp.i + 1, mp.iters, mp.to_do - 1)
          ELSE /\ lists' = lists
               /\ mp' = [mp EXCEPT !.i = mp.i + 1]
               /\ pc' = MaxPairsPc(mp.i + 1, mp.iters, mp.to_do)
    /\ UNCHANGED <<topology, tape, mapper_type, cnots_list, mapper, upd, rt, drv>>

MapperNext ==
    \/ MapperBasic
    \/ MapperRandom
    \/ MajorityInit
    \/ MajorityAdjError
    \/ MajorityStep
    \/ MaxPairsInit
    \/ MaxPairsSeed
    \/ MaxPairsPop
    \/ MaxPairsExpand

(***************************************************************************)
(* Router                                                                  *)
(***************************************************************************)
\* A Router object together with the frame of the route_circuit_portion /
\* __apply_cnot call that runs on it.
\*   phase "fetch":  at the head of the loop of route_circuit_portion
\*   phase "moving": inside __apply_cnot, after the two paths were derived
NoRouter ==
    [l_to_p |-> 0, p_to_l |-> 0, cnots_list |-> <<>>, lookahead |-> 0,
     adj_matrix |-> <<>>, dist |-> <<>>, next_node |-> <<>>,
     m |-> 0, idx |-> 0, swaps |-> <<>>, swaps_count |-> 0, phase |-> "none",
     control |-> -1, target |-> -1, control_node |-> -1, target_node |-> -1,
     shortest_path |-> <<>>, strategy |-> -1,
     control_path |-> <<>>, target_path |-> <<>>, cnode |-> -1, tnode |-> -1,
     control_swaps |-> <<>>, target_swaps |-> <<>>,
     control_swaps_count |-> 0, target_swaps_count |-> 0]

\* list.copy(): the heap with a copy of the list at address a appended
CopyList(h, a) == Append(h, h[a])

\* Router.__init__ that takes the mapper's lists themselves, not copies
RouterInitShared(h, g, mpr, cl, lookahead) ==
    LET adj == AdjMatrix(g)
        fw == ShortestPathTables[g]
    IN [lists |-> h,
        router |-> [NoRouter EXCEPT !.l_to_p = mpr.l_to_p, !.p_to_l = mpr.p_to_l,
                                    !.cnots_list = cl, !.lookahead = lookahead,
                                    !.adj_matrix = adj, !.dist = fw.dist,
                                    !.next_node = fw.next_node,
                                    !.m = Len(cl), !.phase = "fetch"]]

\* Router.__init__ followed by the prologue of route_circuit (m = len(cnots_list)):
\* the heap after the two copies, and the router holding the copies.
RouterInit(h, g, mpr, cl, lookahead) ==
    LET h1 == CopyList(h, mpr.l_to_p)
        h2 == CopyList(h1, mpr.p_to_l)
        adj == AdjMatrix(g)
        fw == ShortestPathTables[g]
    IN [lists |-> h2,
        router |-> [NoRouter EXCEPT !.l_to_p = Len(h) + 1, !.p_to_l = Len(h) + 2,
                                    !.cnots_list = cl, !.lookahead = lookahead,
                                    !.adj_matrix = adj, !.dist = fw.dist,
                                    !.next_node = fw.next_node,
                                    !.m = Len(cl), !.phase = "fetch"]]

\* LookaheadWindow that starts after the triple at index begin
LookaheadWindowAfter(cl, lookahead, begin) ==
    SubSeq(cl, begin + 2, Min(begin + lookahead, Len(cl)))

\* cnots_list[begin : min(begin + lookahead, len(cnots_list))]
LookaheadWindow(cl, lookahead, begin) ==
    SubSeq(cl, begin + 1, Min(begin + lookahead, Len(cl)))

\* swap_strategy_by_lookahead whose two tests ask for more than twice the
\* other count
swap_strategy_by_lookahead_strict(cl, lookahead, begin, control, target) ==
    LET operations == SubSeq(cl, begin + 1, Min(begin + lookahead, Len(cl)))
        control_count == Cardinality({x \in DOMAIN operations :
                            operations[x][1] = control \/ operations[x][2] = control})
        target_count == Cardinality({x \in DOMAIN operations :
                            operations[x][1] = target \/ operations[x][2] = target})
    IN IF control_count = 0 /\ target_count = 0 THEN {control, target, -1}
       ELSE IF control_count = 0 \/ control_count > 2 * target_count THEN {target}
       ELSE IF target_count = 0 \/ target_count > 2 * control_count THEN {control}
       ELSE {-1}

\* __swap_strategy_by_lookahead: the set of values it can return
swap_strategy_by_lookahead(cl, lookahead, begin, control, target) ==
    LET operations == LookaheadWindow(cl, lookahead, begin)
        control_count == Cardinality({x \in DOMAIN operations :
                            operations[x][1] = control \/ operations[x][2] = control})
        target_count == Cardinality({x \in DOMAIN operations :
                            operations[x][1] = target \/ operations[x][2] = target})
    IN IF control_count = 0 /\ target_count = 0 THEN {control, target, -1}
       ELSE IF control_count = 0 \/ control_count >= 2 * target_count THEN {target}
       ELSE IF target_count = 0 \/ target_count >= 2 * control_count THEN {control}
       ELSE {-1}

\* SplitControlEdges computed from the number of edges of the path
SplitControlEdgesOfEdges(shortest_path) ==
    LET shortest_path_len == Len(shortest_path) - 1
    IN IF shortest_path_len % 2 = 0 THEN shortest_path_len \div 2
       ELSE (shortest_path_len + 1) \div 2

\* the split of the shortest path under strategy -1
SplitControlEdges(shortest_path) ==
    LET shortest_path_len == Len(shortest_path)
    IN IF shortest_path_len % 2 = 0 THEN shortest_path_len \div 2
       ELSE (shortest_path_len + 1) \div 2

\* ControlPath that walks the control onto the node of the target
ControlPathToEnd(strategy, control, target, shortest_path) ==
    IF strategy = target THEN <<>>
    ELSE IF strategy = control THEN SubSeq(shortest_path, 2, Len(shortest_path))
    ELSE SubSeq(shortest_path, 2, SplitControlEdges(shortest_path))

\* control_path and target_path of __apply_cnot; the three tests are
\* sequential ifs, a later one overrides an earlier one
ControlPath(strategy, control, target, shortest_path) ==
    IF strategy = target THEN <<>>
    ELSE IF strategy = control THEN SubSeq(shortest_path, 2, Len(shortest_path) - 1)
    ELSE SubSeq(shortest_path, 2, SplitControlEdges(shortest_path))

\* TargetPath whose split branch keeps the node of the target itself
TargetPathToEnd(strategy, control, target, shortest_path) ==
    IF strategy = target THEN Reverse(SubSeq(shortest_path, 2, Len(shortest_path) - 1))
    ELSE IF strategy = control THEN <<>>
    ELSE SubSeq(shortest_path, SplitControlEdges(shortest_path) + 1, Len(shortest_path))

TargetPath(strategy, control, target, shortest_path) ==
    IF strategy = target THEN Reverse(SubSeq(shortest_path, 2, Len(shortest_path) - 1))
    ELSE IF strategy = control THEN <<>>
    ELSE SubSeq(shortest_path, SplitControlEdges(shortest_path) + 1, Len(shortest_path) - 1)

\* MoveThroughPathStep without the update of l_to_p[swap_qubit]
MoveThroughPathStepStale(h, r, qubit, qubit_node, node) ==
    LET swap_qubit == h[r.p_to_l][node]
        h1 == [h EXCEPT ![r.p_to_l][node] = qubit]
        h2 == [h1 EXCEPT ![r.p_to_l][qubit_node] = swap_qubit]
    IN [h2 EXCEPT ![r.l_to_p][qubit] = node]

\* one iteration of the loop of __move_through_path: the heap after it
MoveThroughPathStep(h, r, qubit, qubit_node, node) ==
    LET swap_qubit == h[r.p_to_l][node]
        h1 == [h EXCEPT ![r.p_to_l][node] = qubit]
        h2 == [h1 EXCEPT ![r.p_to_l][qubit_node] = swap_qubit]
        h3 == [h2 EXCEPT ![r.l_to_p][qubit] = node]
    IN [h3 EXCEPT ![r.l_to_p][swap_qubit] = qubit_node]

Routing == pc \in {"route1", "route2", "route_final"}

\* route_circuit_portion takes the next triple and __apply_cnot runs up to
\* the calls of __move_through_path (or returns [], 0 when adjacent)
ApplyCnot ==
    /\ Routing
    /\ rt.phase = "fetch"
    /\ rt.idx < Min(rt.m, Len(rt.cnots_list))
    /\ LET triple == rt.cnots_list[rt.idx + 1]
           control == triple[1]
           target == triple[2]
           i == triple[3]
           control_node == lists[rt.l_to_p][control]
           target_node == lists[rt.l_to_p][target]
           frame == [rt EXCEPT !.control = control, !.target = target,
                               !.control_node = control_node, !.target_node = target_node,
                               !.shortest_path = <<>>, !.strategy = -1,
                               !.control_path = <<>>, !.target_path = <<>>,
                               !.cnode = control_node, !.tnode = target_node,
                               !.control_swaps = <<>>, !.target_swaps = <<>>,
                               !.control_swaps_count = 0, !.target_swaps_count = 0]
       IN IF are_adjacent(rt.adj_matrix, control_node, target_node)
          THEN rt' = [frame EXCEPT !.swaps = Append(rt.swaps, <<>>), !.idx = rt.idx + 1]
          ELSE LET shortest_path == get_shortest_path(rt.dist, rt.next_node, control_node, target_node)
               IN \E strategy \in swap_strategy_by_lookahead(rt.cnots_list, rt.lookahead, i, control, target) :
                    rt' = [frame EXCEPT !.shortest_path = shortest_path,
                                        !.strategy = strategy,
                                        !.control_path = ControlPath(strategy, control, target, shortest_path),
                                        !.target_path = TargetPath(strategy, control, target, shortest_path),
                                        !.phase = "moving"]
    /\ UNCHANGED <<topology, tape, mapper_type, cnots_list, pc, lists, mapper, mp, upd, drv>>

\* one SWAP of __move_through_path(control, control_node, control_path)
MoveControl ==
    /\ Routing
    /\ rt.phase = "moving"
    /\ rt.control_path # <<>>
    /\ LET node == Head(rt.control_path)
       IN /\ lists' = MoveThroughPathStep(lists, rt, rt.control, rt.cnode, node)
          /\ rt' = [rt EXCEPT !.control_swaps = Append(rt.control_swaps, <<rt.control, lists[rt.p_to_l][node]>>),
                              !.control_swaps_count = rt.control_swaps_count + 1,
                              !.cnode = node,
                              !.control_path = Tail(rt.control_path)]
    /\ UNCHANGED <<topology, tape, mapper_type, cnots_list, pc, mapper, mp, upd, drv>>

\* one SWAP of __move_through_path(target, target_node, target_path)
MoveTarget ==
    /\ Routing
    /\ rt.phase = "moving"
    /\ rt.control_path = <<>>
    /\ rt.target_path # <<>>
    /\ LET node == Head(rt.target_path)
       IN /\ lists' = MoveThroughPathStep(lists, rt, rt.target, rt.tnode, node)
          /\ rt' = [rt EXCEPT !.target_swaps = Append(rt.target_swaps, <<rt.target, lists[rt.p_to_l][node]>>),
                              !.target_swaps_count = rt.target_swaps_count + 1,
                              !.tnode = node,
                              !.target_path = Tail(rt.target_path)]
    /\ UNCHANGED <<topology, tape, mapper_type, cnots_list, pc, mapper, mp, upd, drv>>

\* SwapsCountAfter that forgets the SWAPs of the target walk
SwapsCountControlOnly(swaps_count, control_swaps_count, target_swaps_count) ==
    swaps_count + control_swaps_count

\* swaps_count of route_circuit_portion after a gate: __apply_cnot adds the
\* counts of its two walks, route_circuit_portion adds that to its total
SwapsCountAfter(swaps_count, control_swaps_count, target_swaps_count) ==
    swaps_count + (control_swaps_count + target_swaps_count)

\* __apply_cnot returns its record and count, route_circuit_portion adds them
ReturnCnot ==
    /\ Routing
    /\ rt.phase = "moving"
    /\ rt.control_path = <<>>
    /\ rt.target_path = <<>>
    /\ rt' = [rt EXCEPT !.swaps = Append(rt.swaps, <<rt.control_swaps, rt.target_swaps>>),
                        !.swaps_count = SwapsCountAfter(rt.swaps_count, rt.control_swaps_count,
                                                        rt.target_swaps_count),
                        !.idx = rt.idx + 1,
                        !.phase = "fetch"]
    /\ UNCHANGED <<topology, tape, mapper_type, cnots_list, pc, lists, mapper, mp, upd, drv>>

\* route_circuit_portion has left its loop
RouteDone == rt.phase = "fetch" /\ rt.idx >= Min(rt.m, Len(rt.cnots_list))

(***************************************************************************)
(* MapperUpdater                                                           *)
(***************************************************************************)
NoUpdater ==
    [initial_mapper |-> NoMapper, cnots_list |-> <<>>, lookahead |-> 0,
     router |-> NoRouter, new_mapper |-> NoMapper,
     swaps_count |-> -1, new_swaps_count |-> -1, ret |-> NoMapper]

\* MapperUpdater.__init__ on the arguments held in upd, and the call of
\* self.router.route_circuit() that opens update_mapping
UpdaterInit ==
    /\ pc = "updater_new"
    /\ LET r == RouterInit(lists, topology, upd.initial_mapper, upd.cnots_list, upd.lookahead)
       IN /\ lists' = r.lists
          /\ rt' = r.router
    /\ pc' = "route1"
    /\ UNCHANGED <<topology, tape, mapper_type, cnots_list, mapper, mp, upd, drv>>

\* Mapper.from_static_mapping: the heap after the two copies
FromStaticMapping(h, l_to_p, p_to_l) == CopyList(CopyList(h, l_to_p), p_to_l)

\* the first routing has returned: new_mapper, new_router, second route_circuit()
UpdaterSecond ==
    /\ pc = "route1"
    /\ RouteDone
    /\ LET h == FromStaticMapping(lists, rt.l_to_p, rt.p_to_l)
           new_mapper == MapperObj(Len(lists) + 1, Len(lists) + 2, topology.n)
           r == RouterInit(h, topology, new_mapper, upd.cnots_list, rt.lookahead)
       IN /\ lists' = r.lists
          /\ rt' = r.router
          /\ upd' = [upd EXCEPT !.router = rt, !.swaps_count = rt.swaps_count,
                                !.new_mapper = new_mapper]
    /\ pc' = "route2"
    /\ UNCHANGED <<topology, tape, mapper_type, cnots_list, mapper, mp, drv>>

\* the comparison that ends update_mapping
\* UpdaterChoice that also takes the new mapper on a tie
UpdaterChoiceOnTie(new_swaps_count, swaps_count, new_mapper, initial_mapper) ==
    IF new_swaps_count <= swaps_count THEN new_mapper ELSE initial_mapper

UpdaterChoice(new_swaps_count, swaps_count, new_mapper, initial_mapper) ==
    IF new_swaps_count < swaps_count THEN new_mapper ELSE initial_mapper

UpdaterReturn ==
    /\ pc = "route2"
    /\ RouteDone
    /\ upd' = [upd EXCEPT !.new_swaps_count = rt.swaps_count,
                          !.ret = UpdaterChoice(rt.swaps_count, upd.swaps_count,
                                                upd.new_mapper, upd.initial_mapper)]
    /\ pc' = "updater_done"
    /\ UNCHANGED <<topology, tape, mapper_type, cnots_list, lists, mapper, mp, rt, drv>>

RouterNext == ApplyCnot \/ MoveControl \/ MoveTarget \/ ReturnCnot

UpdaterNext == UpdaterInit \/ UpdaterSecond \/ UpdaterReturn

(***************************************************************************)
(* The driver: apply_routing, get_interaction_list, __update_circuit       *)
(***************************************************************************)
\* an operation of the tape: an opaque identifier and its wires
Op(name, id, wires) == [name |-> name, id |-> id, wires |-> wires]

\* the triples of one operation, op_count being the counter on entry
RECURSIVE PairsFrom(_, _, _, _)
PairsFrom(wires, i, j, op_count) ==
    IF i > Len(wires) THEN <<>>
    ELSE IF j > Len(wires) THEN PairsFrom(wires, i + 1, i + 2, op_count)
    ELSE <<<<wires[i], wires[j], op_count>>>> \o PairsFrom(wires, i, j + 1, op_count + 1)

RECURSIVE InteractionListFrom(_, _, _)
InteractionListFrom(ops, x, interaction_list) ==
    IF x > Len(ops) THEN interaction_list
    ELSE IF Len(ops[x].wires) >= 2
         THEN InteractionListFrom(ops, x + 1,
                  interaction_list \o PairsFrom(ops[x].wires, 1, 2, Len(interaction_list)))
         ELSE InteractionListFrom(ops, x + 1, interaction_list)

\* get_interaction_list whose op_count starts at 1
get_interaction_list_from_one(ops) ==
    LET interaction_list == InteractionListFrom(ops, 1, <<>>)
    IN [k \in DOMAIN interaction_list |->
           <<interaction_list[k][1], interaction_list[k][2], interaction_list[k][3] + 1>>]

get_interaction_list(ops) == InteractionListFrom(ops, 1, <<>>)

\* tape.wires: the wires the operations act on
TapeWires(ops) == UNION {Range(ops[x].wires) : x \in DOMAIN ops}

\* int(log2(n)) for n >= 1
RECURSIVE FloorLog2(_)
FloorLog2(n) == IF n <= 1 THEN 0 ELSE 1 + FloorLog2(n \div 2)

NoDrv ==
    [logical_qubits |-> 0, err |-> "", swaps |-> <<>>, new_ops |-> <<>>,
     current_wires |-> <<>>, op |-> 0]

\* the qubit count without the padding
PaddedQubitsUnpadded(logical_qubits, physical_qubits) == logical_qubits

\* the qubit count after the padding with ancilla qubits
PaddedQubits(logical_qubits, physical_qubits) ==
    LET padding == physical_qubits - logical_qubits
    IN logical_qubits + padding

\* apply_routing up to the construction of the mapper
ApplyRoutingBegin ==
    /\ pc = "start"
    /\ cnots_list' = get_interaction_list(tape)
    /\ LET logical_qubits == Cardinality(TapeWires(tape))
           physical_qubits == topology.n
       IN IF logical_qubits > physical_qubits
          THEN /\ drv' = [drv EXCEPT !.logical_qubits = logical_qubits, !.err = "topology-too-small"]
               /\ pc' = "failed"
          ELSE /\ drv' = [drv EXCEPT !.logical_qubits = PaddedQubits(logical_qubits, physical_qubits)]
               /\ pc' = "mapper_new"
    /\ UNCHANGED <<topology, tape, mapper_type, lists, mapper, mp, upd, rt>>

\* the mapper is built: MapperUpdater on the prefix of int(log2(len(cnots_list))) triples
ApplyRoutingRefine ==
    /\ pc = "mapper_done"
    /\ IF Len(cnots_list) = 0
       THEN /\ drv' = [drv EXCEPT !.err = "math domain error"]
            /\ pc' = "failed"
            /\ upd' = upd
       ELSE /\ upd' = [NoUpdater EXCEPT !.initial_mapper = mapper,
                                        !.cnots_list = SubSeq(cnots_list, 1, FloorLog2(Len(cnots_list))),
                                        !.lookahead = DriverLookahead]
            /\ pc' = "updater_new"
            /\ drv' = drv
    /\ UNCHANGED <<topology, tape, mapper_type, cnots_list, lists, mapper, mp, rt>>

\* update_mapping has returned: the router of the whole list and route_circuit()
ApplyRoutingRoute ==
    /\ pc = "updater_done"
    /\ mapper' = upd.ret
    /\ LET r == RouterInit(lists, topology, upd.ret, cnots_list, upd.lookahead)
       IN /\ lists' = r.lists
          /\ rt' = r.router
    /\ pc' = "route_final"
    /\ UNCHANGED <<topology, tape, mapper_type, cnots_list, mp, upd, drv>>

\* the prologue of __update_circuit
UpdateCircuitBegin ==
    /\ pc = "route_final"
    /\ RouteDone
    /\ drv' = [drv EXCEPT !.swaps = rt.swaps, !.new_ops = <<>>,
                          !.current_wires = Identity(topology.n), !.op = 0]
    /\ pc' = "update_circuit"
    /\ UNCHANGED <<topology, tape, mapper_type, cnots_list, lists, mapper, mp, upd, rt>>

\* qml.map_wires: wires outside the map are kept
map_wires(op, current_wires) ==
    [op EXCEPT !.wires = [x \in DOMAIN op.wires |->
        IF op.wires[x] \in DOMAIN current_wires THEN current_wires[op.wires[x]] ELSE op.wires[x]]]

\* ReplayMovements that updates current_wires[q1] alone
RECURSIVE ReplayMovementsOneSided(_, _, _)
ReplayMovementsOneSided(movements, new_ops, current_wires) ==
    IF movements = <<>> THEN [new_ops |-> new_ops, current_wires |-> current_wires]
    ELSE LET q1 == Head(movements)[1]
             q2 == Head(movements)[2]
         IN ReplayMovementsOneSided(Tail(movements),
                Append(new_ops, Op("SWAP", 0, <<current_wires[q1], current_wires[q2]>>)),
                [current_wires EXCEPT ![q1] = current_wires[q2]])

\* the SWAPs of one list of movements: new_ops and current_wires afterwards
RECURSIVE ReplayMovements(_, _, _)
ReplayMovements(movements, new_ops, current_wires) ==
    IF movements = <<>> THEN [new_ops |-> new_ops, current_wires |-> current_wires]
    ELSE LET q1 == Head(movements)[1]
             q2 == Head(movements)[2]
         IN ReplayMovements(Tail(movements),
                Append(new_ops, Op("SWAP", 0, <<current_wires[q1], current_wires[q2]>>)),
                [current_wires EXCEPT ![q1] = current_wires[q2], ![q2] = current_wires[q1]])

\* one iteration of the loop of __update_circuit
UpdateCircuitOp ==
    /\ pc = "update_circuit"
    /\ drv.op < Len(tape)
    /\ LET op == tape[drv.op + 1]
       IN IF Len(op.wires) = 1
          THEN /\ drv' = [drv EXCEPT !.new_ops = Append(drv.new_ops, map_wires(op, drv.current_wires)),
                                     !.op = drv.op + 1]
               /\ pc' = pc
          ELSE IF drv.swaps = <<>>
          THEN /\ drv' = [drv EXCEPT !.err = "list index out of range"]
               /\ pc' = "failed"
          ELSE LET swaps_for_current_operation == Head(drv.swaps)
                   c == IF Len(swaps_for_current_operation) # 0
                        THEN ReplayMovements(swaps_for_current_operation[1], drv.new_ops, drv.current_wires)
                        ELSE [new_ops |-> drv.new_ops, current_wires |-> drv.current_wires]
                   t == IF Len(swaps_for_current_operation) # 0
                        THEN ReplayMovements(swaps_for_current_operation[2], c.new_ops, c.current_wires)
                        ELSE c
               IN /\ drv' = [drv EXCEPT !.swaps = Tail(drv.swaps),
                                        !.new_ops = Append(t.new_ops, map_wires(op, t.current_wires)),
                                        !.current_wires = t.current_wires,
                                        !.op = drv.op + 1]
                  /\ pc' = pc
    /\ UNCHANGED <<topology, tape, mapper_type, cnots_list, lists, mapper, mp, upd, rt>>

\* __update_circuit and apply_routing return
ApplyRoutingReturn ==
    /\ pc = "update_circuit"
    /\ drv.op >= Len(tape)
    /\ pc' = "done"
    /\ UNCHANGED <<topology, tape, mapper_type, cnots_list, lists, mapper, mp, upd, rt, drv>>

DriverNext ==
    \/ ApplyRoutingBegin
    \/ ApplyRoutingRefine
    \/ ApplyRoutingRoute
    \/ UpdateCircuitBegin
    \/ UpdateCircuitOp
    \/ ApplyRoutingReturn

(***************************************************************************)
(* apply_routing on a drawn tape, connectivity graph and strategy          *)
(***************************************************************************)
\* the wire tuples of the operations: every wire, every ordered pair of
\* wires, every ascending triple of wires
WireTuples ==
    LET W == 0..(MaxTapeWires - 1)
    IN {<<a>> : a \in W}
         \cup {t \in W \X W : t[1] # t[2]}
         \cup {t \in W \X W \X W : t[1] < t[2] /\ t[2] < t[3]}

\* the wire indices in use are 0..k-1 for some k
Dense(ops) == \E k \in 0..MaxTapeWires : TapeWires(ops) = 0..(k - 1)

Tapes ==
    {ops \in UNION {{[x \in 1..len |-> Op("OP", x, f[x])] : f \in [1..len -> WireTuples]} :
                    len \in 1..MaxGates} : Dense(ops)}

Init ==
    /\ topology \in DriverTopologies
    /\ tape \in Tapes
    /\ mapper_type \in {"basic", "random", "majority", "max_pairs"}
    /\ cnots_list = <<>>
    /\ pc = "start"
    /\ lists = <<>>
    /\ mapper = NoMapper
    /\ mp = NoMp
    /\ upd = NoUpdater
    /\ rt = NoRouter
    /\ drv = NoDrv

Next == DriverNext \/ MapperNext \/ UpdaterNext \/ RouterNext

Spec == Init /\ [][Next]_vars

(***************************************************************************)
(* A MapperUpdater built on a drawn placement, interaction list and        *)
(* lookahead                                                               *)
(***************************************************************************)
\* interaction lists as get_interaction_list numbers them: seq = position
CnotLists(qubits, maxlen) ==
    LET pairs == {<<c, t>> \in qubits \X qubits : c # t}
    IN UNION {{[x \in 1..len |-> <<f[x][1], f[x][2], x - 1>>] : f \in [1..len -> pairs]} :
              len \in 1..maxlen}

InitUpdater ==
    /\ topology \in UpdaterTopologies
    /\ tape = <<>>
    /\ mapper_type = "given"
    /\ \E l \in Shuffles(topology.n, MaxExchanges) :
          lists = <<l, physic_to_logical(l, Identity(topology.n))>>
    /\ cnots_list \in CnotLists(0..(Min(topology.n, MaxUsedQubits) - 1), MaxCnots)
    /\ pc = "updater_new"
    /\ mapper = MapperObj(1, 2, topology.n)
    /\ mp = NoMp
    /\ \E la \in 0..MaxLookahead :
          upd = [NoUpdater EXCEPT !.initial_mapper = mapper, !.cnots_list = cnots_list,
                                  !.lookahead = la]
    /\ rt = NoRouter
    /\ drv = NoDrv

NextUpdater == RouterNext \/ UpdaterNext

SpecUpdater == InitUpdater /\ [][NextUpdater]_vars

(***************************************************************************)
(* A mapper built directly by MapperType.mapper_from_string on a drawn     *)
(* connectivity graph and interaction list, Q = number of nodes            *)
(***************************************************************************)
InitMapper ==
    /\ topology \in DriverTopologies
    /\ tape = <<>>
    /\ mapper_type \in {"basic", "random", "majority", "max_pairs"}
    /\ cnots_list \in {<<>>} \cup CnotLists(0..(Min(topology.n, MaxUsedQubits) - 1), MaxCnots)
    /\ pc = "mapper_new"
    /\ lists = <<>>
    /\ mapper = NoMapper
    /\ mp = NoMp
    /\ upd = NoUpdater
    /\ rt = NoRouter
    /\ drv = [NoDrv EXCEPT !.logical_qubits = topology.n]

NextMapper == MapperNext

SpecMapper == InitMapper /\ [][NextMapper]_vars

\* compute_mapping of MAX_PAIRS is a sequential loop that runs on: a step of
\* it that can be taken is taken
SpecMapperFair ==
    InitMapper /\ [][NextMapper]_vars
        /\ WF_vars(MaxPairsInit \/ MaxPairsSeed \/ MaxPairsPop \/ MaxPairsExpand)

(***************************************************************************)
(* An UnweightedUndirectedGraph built from a drawn nx.Graph, its tables    *)
(* and its shortest paths                                                  *)
(***************************************************************************)
\* every graph on the nodes 0..n-1, n up to MaxGraphNodes
Graphs ==
    UNION {{Graph(n, E) : E \in SUBSET {e \in SUBSET (0..(n - 1)) : Cardinality(e) = 2}} :
           n \in 1..MaxGraphNodes}

InitGraph ==
    /\ topology \in Graphs
    /\ tape = <<>>
    /\ mapper_type = "none"
    /\ cnots_list = <<>>
    /\ pc = "graph_new"
    /\ lists = <<>>
    /\ mapper = NoMapper
    /\ mp = NoMp
    /\ upd = NoUpdater
    /\ rt = NoRouter
    /\ drv = NoDrv

\* UnweightedUndirectedGraph(n), from_nx(graph) and floyd_warshall(), as at
\* the end of Router.__init__
GraphFloydWarshall ==
    /\ pc = "graph_new"
    /\ LET adj == AdjMatrix(topology)
           fw == floyd_warshall(topology.n, adj)
       IN rt' = [rt EXCEPT !.adj_matrix = adj, !.dist = fw.dist, !.next_node = fw.next_node]
    /\ pc' = "graph_ready"
    /\ UNCHANGED <<topology, tape, mapper_type, cnots_list, lists, mapper, mp, upd, drv>>

\* a call of get_shortest_path(start, end)
GraphShortestPath ==
    /\ pc = "graph_ready"
    /\ \E start \in NodesOf(topology), end \in NodesOf(topology) :
          rt' = [rt EXCEPT !.control_node = start, !.target_node = end,
                           !.shortest_path = get_shortest_path(rt.dist, rt.next_node, start, end)]
    /\ UNCHANGED <<topology, tape, mapper_type, cnots_list, pc, lists, mapper, mp, upd, drv>>

NextGraph == GraphFloydWarshall \/ GraphShortestPath

SpecGraph == InitGraph /\ [][NextGraph]_vars

(***************************************************************************)
(* A QubitInteractionsHandler built on a drawn interaction list, with its  *)
(* map_qubit and qubit_with_most_d_interactions_from_set                   *)
(***************************************************************************)
\* interactions_count is symmetric and ignores the order of the list: one
\* list for each multiset of unordered pairs
HandlerCnotLists ==
    LET pairs == {p \in (0..(MaxHandlerQubits - 1)) \X (0..(MaxHandlerQubits - 1)) : p[1] < p[2]}
        code(p) == p[1] * MaxHandlerQubits + p[2]
        ascending(len) == {f \in [1..len -> pairs] :
                              \A x \in 1..(len - 1) : code(f[x]) <= code(f[x + 1])}
    IN UNION {{[x \in 1..len |-> <<f[x][1], f[x][2], x - 1>>] : f \in ascending(len)} :
              len \in 1..MaxHandlerCnots}

InitHandler ==
    /\ topology = Graph(MaxHandlerQubits, {})
    /\ tape = <<>>
    /\ mapper_type = "none"
    /\ cnots_list \in HandlerCnotLists
    /\ pc = "handler_new"
    /\ lists = <<>>
    /\ mapper = NoMapper
    /\ mp = NoMp
    /\ upd = NoUpdater
    /\ rt = NoRouter
    /\ drv = NoDrv

\* QubitInteractionsHandler(cnots_list, qubits)
HandlerNew ==
    /\ pc = "handler_new"
    /\ mp' = [kind |-> "handler", qubits |-> topology.n,
              free_qubits |-> 0..(topology.n - 1),
              count |-> InteractionsCount(cnots_list, topology.n),
              d |-> -1, target_qubits |-> {}, ret |-> [qubit |-> -1, neighbours |-> {}]]
    /\ pc' = "handler_ready"
    /\ UNCHANGED <<topology, tape, mapper_type, cnots_list, lists, mapper, upd, rt, drv>>

\* a call of map_qubit(q); the caller no longer holds the pair returned to it
HandlerMapQubit ==
    /\ pc \in {"handler_ready", "handler_asked"}
    /\ \E q \in 0..(mp.qubits - 1) :
          mp' = [mp EXCEPT !.free_qubits = map_qubit(mp.free_qubits, mp.qubits, q),
                           !.d = -1, !.target_qubits = {},
                           !.ret = [qubit |-> -1, neighbours |-> {}]]
    /\ pc' = "handler_ready"
    /\ UNCHANGED <<topology, tape, mapper_type, cnots_list, lists, mapper, upd, rt, drv>>

\* a call of qubit_with_most_d_interactions_from_set(d, target_qubits); the
\* caller holds the pair returned
HandlerQuery ==
    /\ pc = "handler_ready"
    /\ \E d \in 0..(mp.qubits - 1), target_qubits \in SUBSET (0..(mp.qubits - 1)) :
          mp' = [mp EXCEPT !.d = d, !.target_qubits = target_qubits,
                           !.ret = qubit_with_most_d_interactions_from_set(
                                       mp.count, mp.free_qubits, d, target_qubits)]
    /\ pc' = "handler_asked"
    /\ UNCHANGED <<topology, tape, mapper_type, cnots_list, lists, mapper, upd, rt, drv>>

NextHandler == HandlerNew \/ HandlerMapQubit \/ HandlerQuery

SpecHandler == InitHandler /\ [][NextHandler]_vars

(***************************************************************************)
(* A FreeTopologyNodesHandler built on a drawn nx.Graph, with occupy_node  *)
(* called on nodes that are free                                           *)
(***************************************************************************)
InitFreeNodes ==
    /\ topology \in Graphs
    /\ tape = <<>>
    /\ mapper_type = "none"
    /\ cnots_list = <<>>
    /\ pc = "free_nodes_new"
    /\ lists = <<>>
    /\ mapper = NoMapper
    /\ mp = NoMp
    /\ upd = NoUpdater
    /\ rt = NoRouter
    /\ drv = NoDrv

\* FreeTopologyNodesHandler(graph)
FreeNodesNew ==
    /\ pc = "free_nodes_new"
    /\ mp' = [kind |-> "free_nodes", free_nodes |-> NodesOf(topology),
              free_neighbours |-> FreeNeighboursInit(topology)]
    /\ pc' = "free_nodes_ready"
    /\ UNCHANGED <<topology, tape, mapper_type, cnots_list, lists, mapper, upd, rt, drv>>

\* a call of occupy_node(v) on a free node
FreeNodesOccupy ==
    /\ pc = "free_nodes_ready"
    /\ \E v \in mp.free_nodes :
          mp' = [mp EXCEPT !.free_nodes = mp.free_nodes \ {v},
                           !.free_neighbours = occupy_node(mp.free_neighbours, v)]
    /\ UNCHANGED <<topology, tape, mapper_type, cnots_list, pc, lists, mapper, upd, rt, drv>>

NextFreeNodes == FreeNodesNew \/ FreeNodesOccupy

SpecFreeNodes == InitFreeNodes /\ [][NextFreeNodes]_vars

(***************************************************************************)
(* Properties                                                              *)
(***************************************************************************)
\* the number of edges of a shortest path from the nodes of `seen` (d steps
\* away from the start) to v, by breadth-first search on the graph; Inf if none
RECURSIVE HopsFrom(_, _, _, _)
HopsFrom(g, seen, v, d) ==
    IF v \in seen THEN d
    ELSE LET more == seen \cup UNION {Neighbors(g, w) : w \in seen}
         IN IF more = seen THEN Inf ELSE HopsFrom(g, more, v, d + 1)

Hops(g, u, v) == HopsFrom(g, {u}, v, 0)

ConnectedGraph(g) == \A u, v \in NodesOf(g) : Hops(g, u, v) # Inf

\* l and p are mutually inverse permutations of 0..n-1
IsPlacement(l, p, n) ==
    /\ DOMAIN l = 0..(n - 1)
    /\ DOMAIN p = 0..(n - 1)
    /\ {l[q] : q \in 0..(n - 1)} = 0..(n - 1)
    /\ \A q \in 0..(n - 1) : p[l[q]] = q
    /\ \A u \in 0..(n - 1) : l[p[u]] = u

\* the triple route_circuit_portion has just finished
LastTriple == rt.cnots_list[rt.idx]

AfterCnot == rt.phase = "fetch" /\ rt.idx >= 1

\* the number of SWAPs in the record of the triple just finished
LastRecordSwaps ==
    IF Len(rt.swaps[rt.idx]) = 0 THEN 0
    ELSE Len(rt.swaps[rt.idx][1]) + Len(rt.swaps[rt.idx][2])

\* C1: once the router has processed a triple (c, t, _), the nodes holding
\* c and t are adjacent in the topology (stated on the connected topologies,
\* where a route exists).
C1_ProcessedCnotIsAdjacent ==
    (AfterCnot /\ ConnectedGraph(topology)) =>
        are_adjacent(rt.adj_matrix, lists[rt.l_to_p][LastTriple[1]], lists[rt.l_to_p][LastTriple[2]])

\* C2: in the gate stream apply_routing returns, every two-qubit gate
\* (remapped input gate or inserted SWAP) acts on an edge of the connectivity
\* graph (stated on the connected topologies, where a route exists).
C2_OutputGatesOnEdges ==
    (pc = "done" /\ ConnectedGraph(topology)) =>
        \A x \in DOMAIN drv.new_ops :
            Len(drv.new_ops[x].wires) = 2 =>
                {drv.new_ops[x].wires[1], drv.new_ops[x].wires[2]} \in topology.edges

\* C3: every SWAP of __move_through_path exchanges the node that holds the
\* moving qubit with a node adjacent to it, in the control walk and in the target walk.
C3_SwapsAreBetweenAdjacentNodes ==
    rt.phase = "moving" =>
        /\ rt.control_path # <<>> =>
              /\ lists[rt.l_to_p][rt.control] = rt.cnode
              /\ are_adjacent(rt.adj_matrix, rt.cnode, Head(rt.control_path))
        /\ (rt.control_path = <<>> /\ rt.target_path # <<>>) =>
              /\ lists[rt.l_to_p][rt.target] = rt.tnode
              /\ are_adjacent(rt.adj_matrix, rt.tnode, Head(rt.target_path))

\* C4: from a placement that is a permutation with its inverse, after every
\* single SWAP of the router l_to_p is a permutation and p_to_l its inverse.
C4_SwapKeepsPlacement ==
    rt.phase # "none" => IsPlacement(lists[rt.l_to_p], lists[rt.p_to_l], topology.n)

\* both walks of one gate have applied SWAPs
C4_Witness ==
    /\ rt.phase = "moving"
    /\ rt.control_swaps # <<>>
    /\ rt.target_swaps # <<>>

\* C5: whatever the strategy, the constructed mapper's l_to_p is a
\* permutation of 0..Q-1 and p_to_l[l_to_p[q]] = q.
C5_MapperIsPlacement ==
    pc = "mapper_done" =>
        IsPlacement(lists[mapper.l_to_p], lists[mapper.p_to_l], topology.n)

\* MAX_PAIRS has returned a placement other than the identity
C5_Witness ==
    /\ pc = "mapper_done"
    /\ mapper_type = "max_pairs"
    /\ lists[mapper.l_to_p] # Identity(topology.n)

\* C6: on a connected topology, a gate whose control and target sit at
\* distance k >= 1 gets exactly k - 1 SWAPs recorded.
C6_SwapsAreDistanceMinusOne ==
    (AfterCnot /\ ConnectedGraph(topology)) =>
        LET k == Hops(topology, rt.control_node, rt.target_node)
        IN k >= 1 => /\ LastRecordSwaps = k - 1
                     /\ Len(rt.control_swaps) + Len(rt.target_swaps) = k - 1

\* a gate at distance 4 or more was split between control and target
C6_Witness ==
    /\ AfterCnot
    /\ ConnectedGraph(topology)
    /\ Hops(topology, rt.control_node, rt.target_node) >= 4
    /\ rt.control_swaps # <<>>
    /\ rt.target_swaps # <<>>

\* C7: a triple whose control and target sit in different components makes
\* routing fail with a no-path error; no swap record is produced for it.
C7_NoPathFails ==
    (rt.phase \in {"fetch", "moving"} /\ rt.control_node # -1
        /\ Hops(topology, rt.control_node, rt.target_node) = Inf) => pc = "failed"

\* C8: MAX_PAIRS on a connected topology returns with no -1 left in
\* l_to_p or p_to_l.
C8_MaxPairsFillsEverySlot ==
    (pc = "mapper_done" /\ mapper_type = "max_pairs" /\ ConnectedGraph(topology)) =>
        \A q \in 0..(topology.n - 1) :
            lists[mapper.l_to_p][q] # -1 /\ lists[mapper.p_to_l][q] # -1

\* MAX_PAIRS has returned on a connected topology of four nodes or more,
\* having placed the qubits of every interaction on neighbouring nodes
C8_Witness ==
    /\ pc = "mapper_done"
    /\ mapper_type = "max_pairs"
    /\ ConnectedGraph(topology)
    /\ topology.n >= 4
    /\ mp.to_do = 0
    /\ Len(cnots_list) >= 2
    /\ \A x \in DOMAIN cnots_list :
          lists[mapper.l_to_p][cnots_list[x][2]]
              \in Neighbors(topology, lists[mapper.l_to_p][cnots_list[x][1]])

\* C9: update_mapping returns the new mapper (the placement the first
\* routing ended in) exactly when the second routing of the same list needed
\* fewer SWAPs than the first, and the initial mapper otherwise.
C9_RefinementChoice ==
    pc = "updater_done" =>
        LET n1 == upd.router.swaps_count
            n2 == rt.swaps_count
            M0 == <<lists[upd.initial_mapper.l_to_p], lists[upd.initial_mapper.p_to_l]>>
            M1 == <<lists[upd.router.l_to_p], lists[upd.router.p_to_l]>>
            R == <<lists[upd.ret.l_to_p], lists[upd.ret.p_to_l]>>
        IN /\ rt.cnots_list = upd.router.cnots_list
           /\ n2 < n1 => (upd.ret = upd.new_mapper /\ R = M1)
           /\ n2 >= n1 => (upd.ret = upd.initial_mapper /\ R = M0)

\* both routings needed the same positive number of SWAPs
C9_Witness ==
    /\ pc = "updater_done"
    /\ upd.router.swaps_count > 0
    /\ rt.swaps_count = upd.router.swaps_count

\* the addresses of the lists of the mappers the wrapper holds
MapperLists ==
    {upd.initial_mapper.l_to_p, upd.initial_mapper.p_to_l}
        \cup (IF upd.new_mapper # NoMapper
              THEN {upd.new_mapper.l_to_p, upd.new_mapper.p_to_l} ELSE {})

\* C10: no step changes the lists of the initial mapper or of the new
\* mapper, and a router's lists are never a mapper's lists.
C10_RoutersLeaveMappersAlone ==
    [][/\ \A a \in MapperLists : lists'[a] = lists[a]
       /\ rt.phase # "none" => {rt.l_to_p, rt.p_to_l} \cap MapperLists = {}]_vars

\* both routings of the wrapper have applied SWAPs
C10_Witness ==
    /\ pc = "updater_done"
    /\ upd.swaps_count > 0
    /\ upd.new_swaps_count > 0

\* the SWAPs of the records swaps[1..x]
RECURSIVE RecordedSwaps(_, _)
RecordedSwaps(swaps, x) ==
    IF x = 0 THEN 0
    ELSE RecordedSwaps(swaps, x - 1)
           + (IF Len(swaps[x]) = 0 THEN 0 ELSE Len(swaps[x][1]) + Len(swaps[x][2]))

\* C11: the SWAP count of route_circuit / route_circuit_portion is the sum,
\* over the per-gate records, of the lengths of the control and target lists.
C11_CountIsSumOfRecords ==
    /\ rt.phase = "fetch" => rt.swaps_count = RecordedSwaps(rt.swaps, Len(rt.swaps))
    /\ pc = "updater_done" =>
          /\ upd.swaps_count = RecordedSwaps(upd.router.swaps, Len(upd.router.swaps))
          /\ upd.new_swaps_count = RecordedSwaps(rt.swaps, Len(rt.swaps))

\* a routing of two gates has returned, both walks of the first gate and a
\* walk of the second having applied SWAPs
C11_Witness ==
    /\ pc = "route2"
    /\ RouteDone
    /\ Len(rt.swaps) = 2
    /\ Len(rt.swaps[1]) = 2 /\ rt.swaps[1][1] # <<>> /\ rt.swaps[1][2] # <<>>
    /\ Len(rt.swaps[2]) = 2 /\ Len(rt.swaps[2][1]) + Len(rt.swaps[2][2]) > 0

\* the number of triples get_interaction_list emits for the operations ops[1..k]
RECURSIVE TriplesUpTo(_, _)
TriplesUpTo(ops, k) ==
    IF k = 0 THEN 0
    ELSE TriplesUpTo(ops, k - 1) + (Len(ops[k].wires) * (Len(ops[k].wires) - 1)) \div 2

\* the movements of a record: the control list, then the target list
MovementsOf(record) == IF Len(record) = 0 THEN <<>> ELSE record[1] \o record[2]

\* the SWAPs met from position pos of the stream on, applied to the live
\* map D: the position after them and the map after them
RECURSIVE SkipSwaps(_, _, _)
SkipSwaps(out, pos, D) ==
    IF pos <= Len(out) /\ out[pos].name = "SWAP"
    THEN LET q1 == CHOOSE q \in DOMAIN D : D[q] = out[pos].wires[1]
             q2 == CHOOSE q \in DOMAIN D : D[q] = out[pos].wires[2]
         IN SkipSwaps(out, pos + 1, [D EXCEPT ![q1] = D[q2], ![q2] = D[q1]])
    ELSE [pos |-> pos, D |-> D]

\* the stream out, from position pos and live map D on, is the rewriting of
\* the operations ops[k..]: a single-qubit gate is emitted remapped; a
\* two-qubit gate is emitted remapped right after the SWAPs of the record of
\* its triple, replayed on the live map; a gate of more wires is emitted
\* remapped after whatever SWAPs come before it
RECURSIVE RewrittenFrom(_, _, _, _, _, _)
RewrittenFrom(ops, swaps, out, k, pos, D) ==
    IF k > Len(ops) THEN pos = Len(out) + 1
    ELSE LET op == ops[k]
             block == IF Len(op.wires) = 1 THEN [new_ops |-> <<>>, current_wires |-> D]
                      ELSE ReplayMovements(MovementsOf(swaps[TriplesUpTo(ops, k - 1) + 1]), <<>>, D)
             skipped == SkipSwaps(out, pos, D)
             at == IF Len(op.wires) <= 2 THEN pos + Len(block.new_ops) ELSE skipped.pos
             live == IF Len(op.wires) <= 2 THEN block.current_wires ELSE skipped.D
         IN /\ at <= Len(out)
            /\ Len(op.wires) <= 2 => SubSeq(out, pos, at - 1) = block.new_ops
            /\ out[at] = map_wires(op, live)
            /\ RewrittenFrom(ops, swaps, out, k + 1, at + 1, live)

C13_TooSmallOrPadded ==
    LET logical == Cardinality(TapeWires(tape))
        nodes == topology.n
        Q == IF logical > nodes THEN logical ELSE nodes
    IN pc # "start" =>
          IF logical > nodes
          THEN /\ pc = "failed"
               /\ drv.err = "topology-too-small"
               /\ mapper = NoMapper /\ mp = NoMp /\ upd = NoUpdater /\ rt = NoRouter
               /\ lists = <<>>
          ELSE /\ drv.err # "topology-too-small"
               /\ drv.logical_qubits = Q
               /\ mapper # NoMapper => mapper.qubits = Q

\* a tape of three wires on a topology of two nodes has been refused
C13_Witness ==
    /\ pc = "failed"
    /\ drv.err = "topology-too-small"
    /\ Cardinality(TapeWires(tape)) = 3
    /\ topology.n = 2

\* C14: the prefix handed to the refinement wrapper has
\* floor(log2(len(interaction list))) triples and at least one, and computing
\* that length never fails.
C14_PrefixIsClampedLog ==
    LET m == FloorLog2(Len(cnots_list))
    IN /\ drv.err # "math domain error"
       /\ pc \in {"updater_new", "route1", "route2", "updater_done"} =>
             Len(upd.cnots_list) = (IF m < 1 THEN 1 ELSE m)

\* the triples among cl[from..to] (positions from 1) that touch qubit q
RECURSIVE Touching(_, _, _, _)
Touching(cl, from, to, q) ==
    IF from > to THEN 0
    ELSE (IF cl[from][1] = q \/ cl[from][2] = q THEN 1 ELSE 0) + Touching(cl, from + 1, to, q)

\* C15: with cc and tc the numbers of triples of the window
\* cnots_list[i : i+lookahead], cut at the end of the list, that touch the
\* control and the target of the gate at index i: cc = 0 and tc = 0 leaves the
\* three strategies open; else cc = 0 or cc >= 2*tc moves the target all the
\* way; else tc = 0 or tc >= 2*cc moves the control all the way; else the path
\* is split.
C15_LookaheadDecision ==
    (Routing /\ rt.phase = "moving") =>
        LET i == rt.idx
            last == IF i + rt.lookahead < Len(rt.cnots_list) THEN i + rt.lookahead
                    ELSE Len(rt.cnots_list)
            cc == Touching(rt.cnots_list, i + 1, last, rt.control)
            tc == Touching(rt.cnots_list, i + 1, last, rt.target)
            interior == Len(rt.shortest_path) - 2
            walked_c == Len(rt.control_swaps) + Len(rt.control_path)
            walked_t == Len(rt.target_swaps) + Len(rt.target_path)
        IN /\ rt.control = rt.cnots_list[i + 1][1]
           /\ rt.target = rt.cnots_list[i + 1][2]
           /\ IF cc = 0 /\ tc = 0 THEN rt.strategy \in {rt.control, rt.target, -1}
              ELSE IF cc = 0 \/ cc >= 2 * tc
                   THEN /\ rt.strategy = rt.target
                        /\ interior >= 0 => (walked_c = 0 /\ walked_t = interior)
              ELSE IF tc = 0 \/ tc >= 2 * cc
                   THEN /\ rt.strategy = rt.control
                        /\ interior >= 0 => (walked_c = interior /\ walked_t = 0)
              ELSE rt.strategy = -1

\* the control is touched twice and the target once in the window, and the
\* target has walked the whole path
C15_Witness ==
    /\ Routing
    /\ rt.phase = "moving"
    /\ rt.lookahead = 2
    /\ rt.idx = 0
    /\ Len(rt.cnots_list) = 2
    /\ Touching(rt.cnots_list, 1, 2, rt.control) = 2
    /\ Touching(rt.cnots_list, 1, 2, rt.target) = 1
    /\ rt.strategy = rt.target
    /\ Len(rt.shortest_path) >= 4
    /\ Len(rt.target_swaps) = Len(rt.shortest_path) - 2

\* __apply_cnot has just chosen the split of a path and no SWAP is applied yet
JustSplit ==
    /\ Routing
    /\ rt.phase = "moving"
    /\ rt.strategy = -1
    /\ Len(rt.shortest_path) >= 3
    /\ rt.control_swaps_count = 0
    /\ rt.target_swaps_count = 0

\* C16: under the split of a shortest path P of k >= 2 edges, with
\* h = ceil(k/2) for odd k and h = k/2 for even k, control_path is P[1..h-1]
\* and target_path is P[h..k-1] (P[0] being the node of the control).
C16_SplitByEdges ==
    JustSplit =>
        LET P == rt.shortest_path
            k == Len(P) - 1
            h == IF k % 2 = 1 THEN (k + 1) \div 2 ELSE k \div 2
        IN /\ rt.control_path = SubSeq(P, 2, h)
           /\ rt.target_path = SubSeq(P, h + 1, k)

C18_ShortestPaths ==
    pc = "graph_ready" =>
        /\ \A s, t \in NodesOf(topology) : rt.dist[s][t] = Hops(topology, s, t)
        /\ rt.control_node # -1 =>
              LET s == rt.control_node
                  t == rt.target_node
                  P == rt.shortest_path
              IN /\ (P = <<>>) <=> (rt.dist[s][t] = Inf)
                 /\ P # <<>> =>
                       /\ P[1] = s
                       /\ P[Len(P)] = t
                       /\ Len(P) = rt.dist[s][t] + 1
                       /\ \A x \in 1..(Len(P) - 1) : {P[x], P[x + 1]} \in topology.edges

\* a shortest path of two edges has been returned on a graph of four nodes
\* one of which is unreachable from another
C18_Witness ==
    /\ pc = "graph_ready"
    /\ Len(rt.shortest_path) = 3
    /\ topology.n = 4
    /\ \E s, t \in NodesOf(topology) : rt.dist[s][t] = Inf

\* the sum of the d highest counts of row i over the qubits of cands
RECURSIVE TopSum(_, _, _, _)
TopSum(count, i, cands, d) ==
    IF d = 0 \/ cands = {} THEN 0
    ELSE LET j == CHOOSE j \in cands : \A x \in cands : count[i][x] <= count[i][j]
         IN count[i][j] + TopSum(count, i, cands \ {j}, d - 1)

\* the d-score of qubit i: its d highest-count partners among the free qubits
DScore(count, free_qubits, d, i) == TopSum(count, i, free_qubits \ {i}, d)

\* C19: qubit_with_most_d_interactions_from_set(d, S) returns the qubit of
\* S \cap free_qubits with the highest d-score (the sum of its counts with its
\* d highest-count partners among the free qubits, placed partners being
\* skipped), the lowest index on a tie, and partners of that qubit that make
\* up that score.
C19_BestFreeQubitOfSet ==
    (pc = "handler_asked" /\ mp.target_qubits \cap mp.free_qubits # {}) =>
        LET cands == mp.target_qubits \cap mp.free_qubits
            score(i) == DScore(mp.count, mp.free_qubits, mp.d, i)
            best == CHOOSE i \in cands :
                       /\ \A x \in cands : score(x) <= score(i)
                       /\ \A x \in cands : score(x) = score(i) => i <= x
            P == mp.ret.neighbours
            RECURSIVE SumOver(_)
            SumOver(js) == IF js = {} THEN 0
                           ELSE LET j == CHOOSE j \in js : TRUE
                                IN mp.count[best][j] + SumOver(js \ {j})
        IN /\ mp.ret.qubit = best
           /\ P \subseteq mp.free_qubits \ {best}
           /\ Cardinality(P) <= mp.d
           /\ SumOver(P) = score(best)

\* the element of rank r (from 1) of the set S by key, highest key first, the
\* lowest index first among equal keys
Ranked(key, S, r) ==
    CHOOSE e \in S :
        Cardinality({a \in S : key[a] > key[e] \/ (key[a] = key[e] /\ a < e)}) = r - 1

\* C20: step r of MAJORITY assigns the qubit of rank r by number of distinct
\* partners to the node of rank r by degree, the lowest index first among
\* qubits (or nodes) of equal key.
C20_MajorityByRank ==
    mp.kind = "majority" =>
        LET qubits == 0..(mapper.qubits - 1)
            partners == [q \in qubits |-> Cardinality(Interact(cnots_list, q))]
            degree == [v \in NodesOf(topology) |-> Cardinality(Neighbors(topology, v))]
        IN \A r \in 1..mp.it :
              lists[mapper.l_to_p][Ranked(partners, qubits, r)] = Ranked(degree, NodesOf(topology), r)

\* C21: in the free-node index, after construction and after every
\* occupy_node on a free node, v is among the free neighbours of u exactly
\* when v is a neighbour of u in the topology and v is free.
C21_FreeNeighboursAreFreeAndAdjacent ==
    pc = "free_nodes_ready" =>
        \A u, v \in NodesOf(topology) :
            (v \in mp.free_neighbours[u]) <=>
                ({u, v} \in topology.edges /\ u # v /\ v \in mp.free_nodes)

\* two nodes of a graph of four nodes are occupied, one of them a neighbour
\* of a node that still has a free neighbour
C21_Witness ==
    /\ pc = "free_nodes_ready"
    /\ topology.n = 4
    /\ Cardinality(mp.free_nodes) = 2
    /\ \E u \in NodesOf(topology) :
          /\ mp.free_neighbours[u] # {}
          /\ Neighbors(topology, u) \ mp.free_nodes # {}

\* compute_mapping of MAX_PAIRS has returned with nothing left to place
MaxPairsReturned ==
    IF pc = "mapper_done" /\ mp.kind = "max_pairs" THEN mp.to_do = 0 ELSE FALSE

\* C22: MAX_PAIRS with as many qubits as nodes returns on every topology,
\* connected or not, with nothing left to place.
C22_MaxPairsTerminates == (mapper_type = "max_pairs") ~> MaxPairsReturned

\* MAX_PAIRS has returned on a topology of two components with every qubit
\* placed, the queue having drained before the second component was reached
C22_Witness ==
    /\ pc = "mapper_done"
    /\ mapper_type = "max_pairs"
    /\ ~ConnectedGraph(topology)
    /\ mp.to_do = 0
    /\ mp.free_nodes = {}
    /\ \A q \in 0..(topology.n - 1) : lists[mapper.l_to_p][q] # -1

\* MAX_PAIRS at work on the line 0-1-2-3 with the interactions (0,1),(0,2)
MaxPairsOnLineOfFour ==
    /\ topology = Line(4)
    /\ mapper_type = "max_pairs"
    /\ cnots_list = <<(<<0, 1, 0>>), (<<0, 2, 1>>)>>
    /\ mp.kind = "max_pairs"

\* C23: MAX_PAIRS on the line 0-1-2-3 with the interactions (0,1),(0,2):
\* the first seed is node 1, of free degree 2, with qubit 0, whose score over
\* its two best partners is 2, and the expansion of that seed places the
\* qubits 1 and 2 on the nodes 0 and 2 (qubit 3 is still unplaced then).
C23_MaxPairsSeedOnLine ==
    MaxPairsOnLineOfFour =>
        LET l_to_p == lists[mapper.l_to_p]
        IN /\ mp.to_do = 4 =>
                 /\ Cardinality(mp.free_neighbours[1]) = 2
                 /\ DScore(mp.interactions_count, mp.free_qubits, 2, 0) = 2
           /\ mp.to_do <= 3 => l_to_p[0] = 1
           /\ mp.to_do \in {2, 3} => mp.node = 1 /\ mp.qubit = 0
           /\ mp.to_do >= 1 => l_to_p[3] = -1
           /\ mp.to_do <= 1 => {l_to_p[1], l_to_p[2]} = {0, 2}

\* the expansion of the seed (node 1, qubit 0) has just placed its second
\* partner: qubit 1 is on node 2 and qubit 2 on node 0
C23_Witness ==
    /\ MaxPairsOnLineOfFour
    /\ mp.to_do = 1 /\ mp.node = 1 /\ mp.qubit = 0
    /\ lists[mapper.l_to_p][1] = 2 /\ lists[mapper.l_to_p][2] = 0

\* the seq of every triple of the list cl is its position, counted from 0
SeqIsPosition(cl) == \A k \in DOMAIN cl : cl[k][3] = k - 1

\* the number of pairs of wire positions that come before the pair (i, j)
\* in the order of the two nested loops
PairRank(i, j, n) ==
    Cardinality({ab \in (1..n) \X (1..n) :
                    ab[1] < ab[2] /\ (ab[1] < i \/ (ab[1] = i /\ ab[2] < j))})

AtTriple == Routing /\ rt.idx < Min(rt.m, Len(rt.cnots_list))

\* C25: with a lookahead of 1 or more the window of a triple starts at the
\* triple itself, so the control and the target are each touched at least
\* once in it (cc >= 1 and tc >= 1) at every call of the lookahead decision
\* made by route_circuit_portion: the random three-way choice is not reached,
\* the decision has one outcome, and routing a list from a placement is
\* deterministic.
C25_NoRandomChoice ==
    (AtTriple /\ rt.lookahead >= 1) =>
        LET triple == rt.cnots_list[rt.idx + 1]
            begin == triple[3]
            last == Min(begin + rt.lookahead, Len(rt.cnots_list))
            outcomes == swap_strategy_by_lookahead(rt.cnots_list, rt.lookahead, begin,
                                                   triple[1], triple[2])
        IN /\ Touching(rt.cnots_list, begin + 1, last, triple[1]) >= 1
           /\ Touching(rt.cnots_list, begin + 1, last, triple[2]) >= 1
           /\ Cardinality(outcomes) = 1
           /\ rt.phase = "moving" => outcomes = {rt.strategy}

\* the last triple of a list is routed with a lookahead of 1 or more: its
\* window holds that triple alone and the path is split
C25_Witness ==
    /\ AtTriple
    /\ rt.phase = "moving"
    /\ rt.lookahead >= 1
    /\ rt.idx = 1 /\ Len(rt.cnots_list) = 2
    /\ rt.strategy = -1

\* the movements of the records, one after the other
RECURSIVE AllMovements(_)
AllMovements(records) ==
    IF records = <<>> THEN <<>>
    ELSE MovementsOf(Head(records)) \o AllMovements(Tail(records))

\* the live map of the driver after it has replayed the records from the
\* identity
ReplayedMap(records) ==
    ReplayMovements(AllMovements(records), <<>>, Identity(topology.n)).current_wires

\* the placement after the exchanges of the movements
RECURSIVE PlacementAfter(_, _)
PlacementAfter(placement, movements) ==
    IF movements = <<>> THEN placement
    ELSE PlacementAfter(Exchange(placement, Head(movements)[1], Head(movements)[2]),
                        Tail(movements))

\* the records the router has written so far, the one of the gate it is
\* working on included
RecordsSoFar ==
    IF rt.phase = "moving" THEN Append(rt.swaps, <<rt.control_swaps, rt.target_swaps>>)
    ELSE rt.swaps

\* the records the driver has replayed so far
RecordsReplayed == SubSeq(rt.swaps, 1, Len(rt.swaps) - Len(drv.swaps))

WalkStepFrame ==
    (Routing /\ rt.phase = "moving" /\ lists' # lists) =>
        LET R == lists[rt.l_to_p]
            Rnext == lists'[rt.l_to_p]
            on_path == Range(rt.shortest_path)
        IN /\ \A q \in DOMAIN R : R[q] \notin on_path => Rnext[q] = R[q]
           /\ \A v \in DOMAIN lists[rt.p_to_l] :
                 v \notin on_path => lists'[rt.p_to_l][v] = lists[rt.p_to_l][v]
           /\ Len(rt'.control_swaps) > Len(rt.control_swaps) =>
                 /\ R[rt.target] = rt.target_node
                 /\ Rnext[rt.target] = rt.target_node
           /\ Len(rt'.target_swaps) > Len(rt.target_swaps) =>
                 /\ rt.target_swaps = <<>> => R[rt.target] = rt.target_node
                 /\ Rnext[rt.control] = R[rt.control]
                 /\ R[rt.control] = rt.cnode

\* C27: routing one gate changes the placement only on the nodes of the
\* shortest path between its endpoints: a qubit that is not on that path
\* keeps its node, the walk of the control never moves the target (the node
\* of the target read before that walk is still its node when its own walk
\* starts), and the walk of the target never moves the control.
C27_WalksStayOnPath == [][WalkStepFrame]_vars

\* the control has walked, the target is about to start from the node read
\* before the walk of the control, and some qubit sits off the path
C27_Witness ==
    /\ Routing
    /\ rt.phase = "moving"
    /\ rt.control_swaps # <<>> /\ rt.control_path = <<>>
    /\ rt.target_swaps = <<>> /\ rt.target_path # <<>>
    /\ lists[rt.l_to_p][rt.target] = rt.target_node
    /\ \E q \in DOMAIN lists[rt.l_to_p] : lists[rt.l_to_p][q] \notin Range(rt.shortest_path)

\* the number of slots of the list f that hold -1
Unassigned(f) == Cardinality({x \in DOMAIN f : f[x] = -1})

\* to_do counts the slots of l_to_p, and of p_to_l, that are still -1
RemainingIsUnassigned ==
    /\ mp.to_do >= 0
    /\ mp.to_do = Unassigned(lists[mapper.l_to_p])
    /\ mp.to_do = Unassigned(lists[mapper.p_to_l])

\* a step of compute_mapping that writes the placement writes one pair
\* (qubit, node) of a free qubit and a free node into two slots that hold -1;
\* in the for loop the node is a free neighbour of the expanded node and the
\* qubit is one of the partners of the expanded qubit
MaxPairsPlacementStep ==
    (mp.kind = "max_pairs" /\ lists' # lists) =>
        \E q \in mp.free_qubits : \E v \in mp.free_nodes :
            /\ lists[mapper.l_to_p][q] = -1
            /\ lists[mapper.p_to_l][v] = -1
            /\ lists' = [lists EXCEPT ![mapper.l_to_p][q] = v, ![mapper.p_to_l][v] = q]
            /\ mp'.free_qubits = mp.free_qubits \ {q}
            /\ mp'.free_nodes = mp.free_nodes \ {v}
            /\ mp'.to_do = mp.to_do - 1
            /\ pc = "max_pairs_for" =>
                  /\ v \in mp.free_neighbours[mp.node]
                  /\ {mp.node, v} \in topology.edges
                  /\ q \in mp.qubit_neighbours

\* C28: in MAX_PAIRS every placement, seed or expansion, gives a qubit that
\* is still free a node that is still free; in the expansion the node is a
\* free neighbour of the expanded node and the qubit is one of the partners
\* of the expanded qubit. No slot of l_to_p or p_to_l is written twice, and
\* the remaining counter is the number of -1 slots and is never negative.
C28_MaxPairsPlacesFreeOnFree ==
    [][/\ MaxPairsPlacementStep
       /\ mp'.kind = "max_pairs" => RemainingIsUnassigned']_vars

\* an expansion has just placed the qubit q on the node v, both queued: q
\* and v are no longer free and the counter is the number of -1 slots
C28_Witness ==
    /\ mp.kind = "max_pairs"
    /\ pc = "max_pairs_for"
    /\ mp.i >= 1
    /\ mp.queue # <<>>
    /\ LET v == mp.queue[Len(mp.queue)][1]
           q == mp.queue[Len(mp.queue)][2]
       IN /\ lists[mapper.l_to_p][q] = v
          /\ lists[mapper.p_to_l][v] = q
          /\ q \notin mp.free_qubits
          /\ v \notin mp.free_nodes
          /\ {mp.node, v} \in topology.edges
    /\ RemainingIsUnassigned

\* C29: the driver consumes the records of the router in step with the
\* gates that produced them: when it has handled the operations ops[1..k] it
\* has popped as many records as these operations have interaction triples,
\* so that the j-th record is applied right before the gate of the j-th
\* triple, gates of three wires or more included, and no record is left when
\* the stream ends.
C29_RecordsInStepWithGates ==
    pc \in {"update_circuit", "done"} =>
        /\ Len(rt.swaps) - Len(drv.swaps) = TriplesUpTo(tape, drv.op)
        /\ pc = "done" => drv.swaps = <<>>
====
